---- MODULE Spec2Model ----
(***************************************************************************)
(* Routine notification: a timer-triggered function that polls an RSS      *)
(* feed, mails every routine whose id is not in the SQLite id cache, and   *)
(* warns the operator when the OAuth client secret is about to expire.     *)
(*                                                                         *)
(* Time is counted in whole hours since 01/01/2026 00:00.  Strings that    *)
(* the code parses (entry ids, titles, the expiration date setting) are    *)
(* sequences of characters or tokens, and the parsers work on them.        *)
(* An operator that models a Python function returns a record; its field   *)
(* "raised" tells whether the call ended by raising instead of returning.  *)
(***************************************************************************)
EXTENDS Integers, Sequences, FiniteSets, TLC

\* The longest feed handed to one pass.
MaxFeed == 2

\* The posts the site publishes while the passes over its growing feed are
\* followed.
MaxPost == 11

\* Python's None; also the value of an unset environment variable.  It differs
\* from every string, the empty string <<>> included.
None == <<"None">>

Range(s) == {s[k] : k \in 1..Len(s)}

Reverse(s) == [k \in 1..Len(s) |-> s[Len(s) + 1 - k]]

Digits == {"0", "1", "2", "3", "4", "5", "6", "7", "8", "9"}

Min(S) == CHOOSE k \in S : \A j \in S : k <= j

Max(S) == CHOOSE k \in S : \A j \in S : j <= k

\* F applied to the value of x, which is computed once.
Let(x, F(_)) == CHOOSE r \in {F(v) : v \in {x}} : TRUE

\* s without the characters of chars that lead and trail it.
strip_chars(s, chars) ==
    Let(s, LAMBDA v :
        LET keep == {k \in 1..Len(v) : v[k] \notin chars}
        IN  IF keep = {} THEN <<>> ELSE SubSeq(v, Min(keep), Max(keep)))

(***************************************************************************)
(* format_course_data                                                      *)
(***************************************************************************)

\* The digits that end s.
TrailingDigits(s) ==
    Let(s, LAMBDA v :
        SubSeq(v, 1 + Max({0} \cup {k \in 1..Len(v) : v[k] \notin Digits}), Len(v)))

\* re.search(r'p=(\d+)$', id): the digits that end the string, when they
\* directly follow "p="; group(1) or None.
re_search_id(id) ==
    Let(TrailingDigits(id), LAMBDA d :
        LET k == Len(id) - Len(d)
        IN  IF d # <<>> /\ k >= 2 /\ id[k - 1] = "p" /\ id[k] = "="
            THEN d ELSE None)

\* str.strip(): drop the leading and the trailing blanks.
strip(s) == strip_chars(s, {" "})

\* urllib.parse.quote_plus: a blank becomes "+", "/" is escaped, letters stay.
quote_plus(s) ==
    [k \in 1..Len(s) |-> IF s[k] = " " THEN "+"
                         ELSE IF s[k] = "/" THEN "%2F" ELSE s[k]]

\* The publication instant in UTC: the parsed time of the entry, or the
\* current time when the entry carries none.
published_date_utc(entry, utcnow) ==
    IF entry.published_parsed # None THEN entry.published_parsed[2] ELSE utcnow

\* current_norwegian_time: utcnow() plus two hours.
current_norwegian_time(utcnow) == utcnow + 2

format_course_data(entry, utcnow) ==
    LET title == strip(entry.title)
        norwegian_time == published_date_utc(entry, utcnow) + 2
    IN  [id                  |-> re_search_id(entry.id),
         title               |-> title,
         published_norwegian |-> <<"Y-m-d H:M:S", norwegian_time>>,
         published_iso       |-> norwegian_time,
         search_url          |-> <<"https://quality.k2kompetanse.no/rutiner/?_kurs_sok=">>
                                     \o quote_plus(title),
         encoded_title       |-> quote_plus(title),
         formatted_date      |-> <<"kl", norwegian_time>>]

(***************************************************************************)
(* The SQLite table routine_ids, kept as the sequence of its routine_id    *)
(* values in insertion order.                                              *)
(***************************************************************************)

\* lastroutine(): every stored id, newest first; [] when the read fails.
lastroutine(db, readOk) == IF readOk THEN Reverse(db) ELSE <<>>

\* is_new_routine: the id is looked up in what lastroutine() returned.
is_new_routine(routine_data, cached_ids) == routine_data.id \notin Range(cached_ids)

\* updatecache that commits nothing.
updatecache_no_insert(db, new_id, writeOk) == db

\* updatecache on a table whose routine_id column lacks NOT NULL: the id
\* None is stored as a row like any other.
updatecache_stores_null(db, new_id, writeOk) ==
    IF ~writeOk \/ new_id \in Range(db) THEN db
    ELSE Append(db, new_id)

\* updatecache: INSERT OR IGNORE skips a row that breaks UNIQUE or NOT NULL;
\* an sqlite error is logged and swallowed.  The table after the call.
updatecache(db, new_id, writeOk) ==
    IF ~writeOk \/ new_id = None \/ new_id \in Range(db) THEN db
    ELSE Append(db, new_id)

(***************************************************************************)
(* sendMail.py                                                             *)
(***************************************************************************)

\* get_access_token: the token, or None on an error result or an exception.
get_access_token(tokenOk) == IF tokenOk THEN <<"token">> ELSE None

\* sendMail without its try / except: the TypeError of the loop leaves it.
sendMail_no_except(routines, tokenOk, postOk) ==
    IF ~tokenOk
    THEN [result |-> FALSE, raised |-> FALSE, posted |-> FALSE, subject |-> None,
          body |-> None]
    ELSE [result |-> FALSE, raised |-> DOMAIN routines # {}, posted |-> FALSE,
          subject |-> None, body |-> None]

\* sendMail(routines), called with one routine_data dict: len() counts its
\* keys and the for loop walks the keys, so routine['title'] subscripts a
\* str with a str: TypeError, caught by the function's own except.
\* posted: requests.post was reached; subject, body: the subject that was
\* posted and the items of the body that was posted, None when none was.
sendMail(routines, tokenOk, postOk) ==
    LET token == get_access_token(tokenOk)
        routine_count == Cardinality(DOMAIN routines)
        subject == IF routine_count > 1 THEN <<routine_count, "nye rutiner publisert">>
                   ELSE <<1, "ny rutine publisert">>
        loopRaises == DOMAIN routines # {}
    IN  IF token = None
        THEN [result |-> FALSE, raised |-> FALSE, posted |-> FALSE, subject |-> None,
              body |-> None]
        ELSE IF loopRaises
        THEN [result |-> FALSE, raised |-> FALSE, posted |-> FALSE, subject |-> None,
              body |-> None]
        ELSE [result |-> postOk, raised |-> FALSE, posted |-> TRUE, subject |-> subject,
              body |-> <<>>]

\* callMailFunction that raises when sendMail reports a failure.
callMailFunction_raises_on_failure(routine_data, tokenOk, postOk) ==
    LET r == sendMail(routine_data, tokenOk, postOk)
    IN  [raised |-> ~r.result, call |-> r]

\* callMailFunction: one sendMail call per routine; any exception is caught.
callMailFunction(routine_data, tokenOk, postOk) ==
    LET r == sendMail(routine_data, tokenOk, postOk)
    IN  [raised |-> FALSE, call |-> r]

(***************************************************************************)
(* The setting CLIENT_SECRET_EXPIRATION_DATE and its parsing               *)
(***************************************************************************)

DigitVal(c) == CHOOSE v \in 0..9 : <<"0", "1", "2", "3", "4", "5", "6", "7", "8", "9">>[v + 1] = c

\* The number that the first k digits of s write.
RECURSIVE intUpTo(_, _)
intUpTo(s, k) == IF k = 0 THEN 0 ELSE 10 * intUpTo(s, k - 1) + DigitVal(s[k])

int(s) == Let(s, LAMBDA v : intUpTo(v, Len(v)))

\* str.strip('"'): drop the leading and the trailing double quotes.
strip_quote(s) == strip_chars(s, {"\""})

\* The fields of s between the "/" separators.
split(s) ==
    Let(s, LAMBDA v :
        LET seps == {k \in 1..Len(v) : v[k] = "/"}
            before(k) == Cardinality({j \in seps : j < k})
        IN  [n \in 1..(Cardinality(seps) + 1) |->
                SubSeq(v, 1 + Max({0} \cup {k \in seps : before(k) = n - 2}),
                          Min({Len(v) + 1} \cup {k \in seps : before(k) = n - 1}) - 1)])

IsLeap(y) == (y % 4 = 0 /\ y % 100 # 0) \/ y % 400 = 0

DaysInMonth(y, m) ==
    IF m = 2 THEN (IF IsLeap(y) THEN 29 ELSE 28)
    ELSE IF m \in {4, 6, 9, 11} THEN 30 ELSE 31

RECURSIVE DaysBeforeMonth(_, _)
DaysBeforeMonth(y, m) == IF m = 1 THEN 0 ELSE DaysBeforeMonth(y, m - 1) + DaysInMonth(y, m - 1)

\* Days from 01/01/2026 to the first day of year y (negative before 2026).
RECURSIVE DaysBeforeYear(_)
DaysBeforeYear(y) ==
    IF y = 2026 THEN 0
    ELSE IF y > 2026 THEN DaysBeforeYear(y - 1) + (IF IsLeap(y - 1) THEN 366 ELSE 365)
    ELSE DaysBeforeYear(y + 1) - (IF IsLeap(y) THEN 366 ELSE 365)

\* datetime.strptime(s, '%m/%d/%Y'): midnight of the date, in hours; raises
\* ValueError when s is not month/day/year with a real calendar day.
strptime(s) ==
    Let(split(s), LAMBDA f :
        LET wellFormed ==
                /\ Len(f) = 3
                /\ \A k \in 1..3 : f[k] # <<>> /\ Range(f[k]) \subseteq Digits
                /\ Len(f[1]) <= 2 /\ Len(f[2]) <= 2 /\ Len(f[3]) = 4
                /\ int(f[1]) \in 1..12
                /\ int(f[3]) >= 1
                /\ int(f[2]) \in 1..DaysInMonth(int(f[3]), int(f[1]))
        IN  IF ~wellFormed THEN [raised |-> TRUE, value |-> 0]
            ELSE [raised |-> FALSE,
                  value  |-> 24 * (DaysBeforeYear(int(f[3]))
                                   + DaysBeforeMonth(int(f[3]), int(f[1]))
                                   + int(f[2]) - 1)])

\* ChangeClientSecret: the setting is read and parsed before the try block,
\* so a missing or malformed setting raises; inside it, a missing token or a
\* response other than 202 returns False.
ChangeClientSecret(expiration_date_str, tokenOk, postOk) ==
    IF expiration_date_str = None \/ strptime(strip_quote(expiration_date_str)).raised
    THEN [result |-> FALSE, raised |-> TRUE, posted |-> FALSE]
    ELSE IF get_access_token(tokenOk) = None
    THEN [result |-> FALSE, raised |-> FALSE, posted |-> FALSE]
    ELSE [result |-> postOk, raised |-> FALSE, posted |-> TRUE]

(***************************************************************************)
(* Inputs                                                                  *)
(***************************************************************************)

\* Values of CLIENT_SECRET_EXPIRATION_DATE: unset, empty, not a date in the
\* expected format, "02/15/2026" in double quotes, and 2/22/2026.
QuotedDate == <<"\"", "0", "2", "/", "1", "5", "/", "2", "0", "2", "6", "\"">>

LaterDate == <<"2", "/", "2", "2", "/", "2", "0", "2", "6">>

IsoDate == <<"2", "0", "2", "6", "-", "0", "2", "-", "1", "5">>

Settings == {None, <<>>, IsoDate, QuotedDate, LaterDate}

\* Hours before midnight of 02/15/2026 at which the timer may fire: both
\* sides of each threshold of the tiers.  LaterDate is 168 hours later, so
\* the same instants lie on its thresholds too.
SampleHours == {-1, 251, 252, 419, 420, 421, 588, 589, 721}

Instants == {strptime(strip_quote(QuotedDate)).value - h : h \in SampleHours}

\* Feed entries as feedparser yields them at time utcnow: a routine published
\* exactly 7 days ago, one published 7 days and an hour ago, and one whose id
\* does not end in p=<digits> and that carries no publication time.
FeedEntries(utcnow) ==
    { [title            |-> <<" ", "A", "L", " ", "t">>,
       id               |-> <<"k", "/", "?", "p", "=", "1">>,
       published_parsed |-> <<"utc", utcnow - 168>>],
      [title            |-> <<"H", "/", "M">>,
       id               |-> <<"k", "/", "?", "p", "=", "2", "0">>,
       published_parsed |-> <<"utc", utcnow - 169>>],
      [title            |-> <<"B", " ">>,
       id               |-> <<"k", "/", "?", "p", "=", "1", "x">>,
       published_parsed |-> None] }

RECURSIVE SeqsUpTo(_, _)
SeqsUpTo(S, n) ==
    IF n = 0 THEN {<<>>}
    ELSE LET shorter == SeqsUpTo(S, n - 1)
         IN  shorter \cup {Append(q, x) : q \in shorter, x \in S}

\* What feedparser.parse can hand back: feeds of up to MaxFeed entries.
Feeds(utcnow) == SeqsUpTo(FeedEntries(utcnow), MaxFeed)

\* str(n): the decimal digits of n.
RECURSIVE str(_)
str(n) ==
    LET digit == <<"0", "1", "2", "3", "4", "5", "6", "7", "8", "9">>[(n % 10) + 1]
    IN  IF n < 10 THEN <<digit>> ELSE Append(str(n \div 10), digit)

\* The entry of the n-th post of the site: WordPress numbers its posts in the
\* order of their creation and ends the guid of a post with p=<number>.
Post(n, utcnow) ==
    [title            |-> <<"R">> \o str(n),
     id               |-> <<"k", "/", "?", "p", "=">> \o str(n),
     published_parsed |-> <<"utc", utcnow - 1>>]

\* The feed of a site that has published n posts: its latest posts, at most
\* len of them, newest first.
LatestPosts(n, len, utcnow) == [k \in 1..Min({n, len}) |-> Post(n + 1 - k, utcnow)]

\* What feedparser.parse can hand back while the site grows by one post
\* between passes: the feed of a site whose posts are those the table holds
\* and at most one more, up to MaxPost posts.
PostFeeds(stored, utcnow) ==
    {LatestPosts(n, len, utcnow) : n \in 0..Min({stored + 1, MaxPost}), len \in 1..MaxFeed}

(***************************************************************************)
(* State                                                                   *)
(***************************************************************************)
VARIABLES
    now,           \* the clock, in hours
    env,           \* CLIENT_SECRET_EXPIRATION_DATE
    db,            \* table routine_ids
    pc,            \* where the invocation stands; "idle" between invocations
    fn,            \* the entry point that is running
    ran,           \* the steps of main that have run in this invocation
    escaped,       \* functions an exception has left in this invocation
    expiry,        \* the outcome of the latest is_about_to_expire call
    entries,       \* test_rss_feed: the entries the for loop has yet to visit
    new_routines,  \* test_rss_feed: new_routines
    all_routines,  \* test_rss_feed: all_routines
    last,          \* the latest loop iteration: routine_data, cached_ids, verdict
    mails,         \* the sendMail calls of this pass
    seen           \* the ids that some pass has classified new

vars == <<now, env, db, pc, fn, ran, escaped, expiry, entries, new_routines,
          all_routines, last, mails, seen>>

feedLocals == <<entries, new_routines, all_routines, last, mails>>

NoCheck ==
    [result |-> FALSE, raised |-> FALSE, checked |-> FALSE, hours |-> 0, tier |-> "none",
     warned |-> FALSE, posted |-> FALSE, delivered |-> FALSE, mail_raised |-> FALSE,
     date |-> None, prev |-> "unchecked", called |-> FALSE]

NoEntry == [routine_data |-> None, cached_ids |-> <<>>, is_new |-> FALSE, errors |-> {}]

Init ==
    /\ now = strptime(strip_quote(QuotedDate)).value - 421
    /\ env \in Settings
    /\ db = <<>>
    /\ pc = "idle"
    /\ fn = "none"
    /\ ran = {}
    /\ escaped = {}
    /\ expiry = NoCheck
    /\ entries = <<>>
    /\ new_routines = <<>>
    /\ all_routines = <<>>
    /\ last = NoEntry
    /\ mails = <<>>
    /\ seen = {}

(***************************************************************************)
(* is_about_to_expire                                                      *)
(***************************************************************************)

\* Tier with the 2-week branch tested first.
Tier_2_week_first(hours_until_expiration) ==
    IF 252 <= hours_until_expiration /\ hours_until_expiration <= 420 THEN "2_week"
    ELSE IF 420 <= hours_until_expiration /\ hours_until_expiration <= 588 THEN "3_week"
    ELSE IF hours_until_expiration < 252 THEN "critical"
    ELSE "none"

\* Tier without the upper end of the 3-week band.
Tier_no_upper_end(hours_until_expiration) ==
    IF 420 <= hours_until_expiration THEN "3_week"
    ELSE IF 252 <= hours_until_expiration /\ hours_until_expiration <= 420 THEN "2_week"
    ELSE IF hours_until_expiration < 252 THEN "critical"
    ELSE "none"

\* Tier whose last branch is taken only once the secret has expired.
Tier_expired_only(hours_until_expiration) ==
    IF 420 <= hours_until_expiration /\ hours_until_expiration <= 588 THEN "3_week"
    ELSE IF 252 <= hours_until_expiration /\ hours_until_expiration <= 420 THEN "2_week"
    ELSE IF hours_until_expiration < 0 THEN "critical"
    ELSE "none"

\* The branch of the if / elif chain that hours_until_expiration takes.
Tier(hours_until_expiration) ==
    IF 420 <= hours_until_expiration /\ hours_until_expiration <= 588 THEN "3_week"
    ELSE IF 252 <= hours_until_expiration /\ hours_until_expiration <= 420 THEN "2_week"
    ELSE IF hours_until_expiration < 252 THEN "critical"
    ELSE "none"

\* What is_about_to_expire yields when it returns False before the tiers.
Silent ==
    [result |-> FALSE, raised |-> FALSE, checked |-> FALSE, hours |-> 0, tier |-> "none",
     warned |-> FALSE, posted |-> FALSE, delivered |-> FALSE, mail_raised |-> FALSE]

\* What is_about_to_expire yields once it has computed the hours.
Checked(expiration_date, current_datetime, tokenOk, postOk) ==
    LET hours_until_expiration ==
            strptime(strip_quote(expiration_date)).value - current_datetime
        tier == Tier(hours_until_expiration)
        should_notify == tier # "none"
        mail == ChangeClientSecret(expiration_date, tokenOk, postOk)
    IN  [result      |-> IF should_notify /\ mail.raised THEN FALSE ELSE should_notify,
         raised      |-> FALSE,
         checked     |-> TRUE,
         hours       |-> hours_until_expiration,
         tier        |-> tier,
         warned      |-> should_notify,
         posted      |-> should_notify /\ mail.posted,
         delivered   |-> should_notify /\ mail.result,
         mail_raised |-> should_notify /\ mail.raised]

\* is_about_to_expire that warns once for an expiration date: it skips the
\* mail when the call before it warned for the same setting.
is_about_to_expire_once(expiration_date, current_datetime, tokenOk, postOk) ==
    IF expiration_date = None \/ expiration_date = <<>> THEN Silent
    ELSE IF strptime(strip_quote(expiration_date)).raised THEN Silent
    ELSE LET r == Checked(expiration_date, current_datetime, tokenOk, postOk)
         IN  IF expiry.warned /\ expiry.date = expiration_date
             THEN [r EXCEPT !.warned = FALSE, !.posted = FALSE, !.delivered = FALSE,
                            !.mail_raised = FALSE]
             ELSE r

\* is_about_to_expire without its try / except: the ValueError of strptime
\* leaves the function.
is_about_to_expire_no_except(expiration_date, current_datetime, tokenOk, postOk) ==
    IF expiration_date = None \/ expiration_date = <<>> THEN Silent
    ELSE IF strptime(strip_quote(expiration_date)).raised
    THEN [Silent EXCEPT !.raised = TRUE]
    ELSE Checked(expiration_date, current_datetime, tokenOk, postOk)

\* is_about_to_expire that falls back to a built-in date when the setting
\* is absent.
is_about_to_expire_default(expiration_date, current_datetime, tokenOk, postOk) ==
    IF expiration_date = None \/ expiration_date = <<>>
    THEN Checked(QuotedDate, current_datetime, tokenOk, postOk)
    ELSE IF strptime(strip_quote(expiration_date)).raised THEN Silent
    ELSE Checked(expiration_date, current_datetime, tokenOk, postOk)

\* is_about_to_expire: what it returns and what it did on the way.
\* checked: the hours were computed; tier: the branch taken; warned:
\* ChangeClientSecret was called; posted: the warning reached requests.post;
\* delivered: ChangeClientSecret returned True; mail_raised: it raised into
\* the except clause, which returns False.
is_about_to_expire(expiration_date, current_datetime, tokenOk, postOk) ==
    IF expiration_date = None \/ expiration_date = <<>> THEN Silent
    ELSE IF strptime(strip_quote(expiration_date)).raised THEN Silent
    ELSE Checked(expiration_date, current_datetime, tokenOk, postOk)

(***************************************************************************)
(* The two entry points                                                    *)
(***************************************************************************)

\* src/__init__.py, main: the timer fires and main runs test_rss_feed only.
main_root ==
    /\ pc = "idle"
    /\ pc' = "feed"
    /\ fn' = "root"
    /\ UNCHANGED <<now, env, db, ran, escaped, expiry, feedLocals, seen>>

\* src/RoutineNotification/__init__.py, main: the timer fires and main
\* runs is_about_to_expire, then test_rss_feed, inside one try block.
main_RoutineNotification ==
    /\ pc = "idle"
    /\ pc' = "expiry"
    /\ fn' = "RoutineNotification"
    /\ UNCHANGED <<now, env, db, ran, escaped, expiry, feedLocals, seen>>

\* The record of one is_about_to_expire call made now: its outcome, the
\* setting it read (date), and the tier of the call before it when that call
\* computed the hours for the same setting (prev).
ExpiryCall(tokenOk, postOk) ==
    Let(is_about_to_expire(env, now, tokenOk, postOk), LAMBDA r :
    LET sameDate == expiry.checked /\ expiry.date = env
    IN  [result |-> r.result, raised |-> r.raised, checked |-> r.checked,
         hours |-> r.hours, tier |-> r.tier, warned |-> r.warned,
         posted |-> r.posted, delivered |-> r.delivered, mail_raised |-> r.mail_raised,
         date |-> env,
         prev |-> IF sameDate THEN expiry.tier ELSE "unchecked",
         called |-> TRUE])

\* main calls fetch.is_about_to_expire().  An exception that leaves it
\* reaches main's except clause, which logs and raises again.
main_is_about_to_expire ==
    /\ pc = "expiry"
    /\ \E tokenOk \in BOOLEAN, postOk \in BOOLEAN :
       \E call \in {ExpiryCall(tokenOk, postOk)} :
         /\ expiry' = call
         /\ escaped' = IF call.raised THEN {"is_about_to_expire", "main"} ELSE escaped
         /\ pc' = IF call.raised THEN "done" ELSE "feed"
    /\ ran' = ran \cup {"is_about_to_expire"}
    /\ UNCHANGED <<now, env, db, fn, feedLocals, seen>>

(***************************************************************************)
(* test_rss_feed                                                           *)
(***************************************************************************)

\* Up to the for loop: init_database, feedparser.parse, the empty-feed test.
\* feeds: what feedparser.parse can hand back.
test_rss_feed_parse(feeds) ==
    /\ pc = "feed"
    /\ ran' = ran \cup {"test_rss_feed"}
    /\ \E dbOk \in BOOLEAN, fetchOk \in BOOLEAN, feed \in feeds :
         IF ~dbOk \/ ~fetchOk \/ Len(feed) = 0
         THEN /\ pc' = "done"
              /\ entries' = <<>>
         ELSE /\ pc' = "loop"
              /\ entries' = feed
    /\ UNCHANGED <<now, env, db, fn, escaped, expiry, new_routines, all_routines,
                   last, mails, seen>>

\* test_rss_feed called on a feed of any entries.
test_rss_feed_begin == test_rss_feed_parse(Feeds(now))

\* test_rss_feed called on the feed of the growing site.
test_rss_feed_posts == test_rss_feed_parse(PostFeeds(Len(db), now))

\* One iteration of the for loop.  readOk, writeOk: whether sqlite answers
\* the read in is_new_routine and the insert in updatecache.
test_rss_feed_entry ==
    /\ pc = "loop"
    /\ entries # <<>>
    /\ \E readOk \in BOOLEAN, tokenOk \in BOOLEAN, postOk \in BOOLEAN, writeOk \in BOOLEAN :
       \E routine_data \in {format_course_data(Head(entries), now)} :
       \E cached_ids \in {lastroutine(db, readOk)} :
       \E mail \in {callMailFunction(routine_data, tokenOk, postOk)} :
         LET isNew == is_new_routine(routine_data, cached_ids)
         IN  /\ all_routines' = Append(all_routines, routine_data)
             /\ last' = [routine_data |-> routine_data,
                         cached_ids   |-> cached_ids,
                         is_new       |-> isNew,
                         errors       |-> (IF readOk THEN {} ELSE {"read"})
                                            \cup (IF isNew /\ ~mail.raised /\ ~writeOk
                                                  THEN {"write"} ELSE {})]
             /\ IF isNew
                THEN /\ new_routines' = Append(new_routines, routine_data)
                     /\ mails' = Append(mails, [routines |-> routine_data,
                                                result   |-> mail.call.result,
                                                raised   |-> mail.call.raised,
                                                posted   |-> mail.call.posted,
                                                subject  |-> mail.call.subject,
                                                body     |-> mail.call.body])
                     /\ seen' = IF routine_data.id = None THEN seen
                                ELSE seen \cup {routine_data.id}
                     /\ IF mail.raised
                        THEN /\ pc' = "done"
                             /\ entries' = <<>>
                             /\ db' = db
                        ELSE /\ pc' = "loop"
                             /\ entries' = Tail(entries)
                             /\ db' = updatecache(db, routine_data.id, writeOk)
                ELSE /\ pc' = "loop"
                     /\ entries' = Tail(entries)
                     /\ UNCHANGED <<new_routines, mails, seen, db>>
    /\ UNCHANGED <<now, env, fn, ran, escaped, expiry>>

\* After the loop: the summary is logged and test_rss_feed returns.
test_rss_feed_end ==
    /\ pc = "loop"
    /\ entries = <<>>
    /\ pc' = "done"
    /\ UNCHANGED <<now, env, db, fn, ran, escaped, expiry, feedLocals, seen>>

\* main returns to the Functions host; the locals of the invocation are gone.
main_return ==
    /\ pc = "done"
    /\ pc' = "idle"
    /\ fn' = "none"
    /\ ran' = {}
    /\ escaped' = {}
    /\ entries' = <<>>
    /\ new_routines' = <<>>
    /\ all_routines' = <<>>
    /\ last' = NoEntry
    /\ mails' = <<>>
    /\ UNCHANGED <<now, env, db, expiry, seen>>

\* One invocation, from either entry point.
Next ==
    \/ main_root
    \/ main_RoutineNotification
    \/ main_is_about_to_expire
    \/ test_rss_feed_begin
    \/ test_rss_feed_entry
    \/ test_rss_feed_end
    \/ main_return

\* The invocations of the function app at one reading of the clock: that of
\* the first sample hour at which the two dates fall into different branches.
Spec == Init /\ [][Next]_vars

\* The next step of an invocation that has started.
Running ==
    \/ main_is_about_to_expire
    \/ test_rss_feed_begin
    \/ test_rss_feed_entry
    \/ test_rss_feed_end
    \/ main_return

\* The invocations of the function RoutineNotification alone.
NextRoutineNotification == main_RoutineNotification \/ Running

\* The Functions host runs an invocation it has started to its end: the code
\* is one synchronous thread and nothing else takes its turn.
FairSpec == Init /\ [][NextRoutineNotification]_vars /\ WF_vars(Running)

\* The passes of the root entry point over the feed of a site that goes on
\* publishing posts.
NextPosts ==
    \/ main_root
    \/ test_rss_feed_posts
    \/ test_rss_feed_entry
    \/ test_rss_feed_end
    \/ main_return

SpecPosts == Init /\ [][NextPosts]_vars

(***************************************************************************)
(* The expiry check over time.  test_rss_feed reads and writes none of     *)
(* now, env and expiry, so the checks of successive invocations are        *)
(* followed here without the feed pass between them.                       *)
(***************************************************************************)

InitExpiry ==
    /\ now \in Instants
    /\ env \in Settings
    /\ db = <<>>
    /\ pc = "idle"
    /\ fn = "none"
    /\ ran = {}
    /\ escaped = {}
    /\ expiry = NoCheck
    /\ entries = <<>>
    /\ new_routines = <<>>
    /\ all_routines = <<>>
    /\ last = NoEntry
    /\ mails = <<>>
    /\ seen = {}

\* The is_about_to_expire call of one invocation.
expiry_pass ==
    /\ pc = "idle"
    /\ \E tokenOk \in BOOLEAN, postOk \in BOOLEAN : expiry' = ExpiryCall(tokenOk, postOk)
    /\ UNCHANGED <<now, env, db, pc, fn, ran, escaped, feedLocals, seen>>

\* Time passes until a later firing of the timer.
Tick ==
    /\ pc = "idle"
    /\ now' \in {t \in Instants : t > now}
    /\ UNCHANGED <<env, db, pc, fn, ran, escaped, expiry, feedLocals, seen>>

\* The operator edits the application setting.
ChangeSetting ==
    /\ pc = "idle"
    /\ env' \in Settings \ {env}
    /\ UNCHANGED <<now, db, pc, fn, ran, escaped, expiry, feedLocals, seen>>

NextExpiry == expiry_pass \/ Tick \/ ChangeSetting

SpecExpiry == InitExpiry /\ [][NextExpiry]_vars

TypeOK ==
    /\ now \in Instants
    /\ env \in Settings
    /\ pc \in {"idle", "expiry", "feed", "loop", "done"}
    /\ fn \in {"none", "root", "RoutineNotification"}
    /\ ran \subseteq {"is_about_to_expire", "test_rss_feed"}
    /\ Len(all_routines) + Len(entries) <= MaxFeed
    /\ Len(db) <= MaxPost
    /\ Len(new_routines) <= Len(all_routines)

(***************************************************************************)
(* Properties                                                              *)
(***************************************************************************)

\* A step of the for loop has just evaluated one more entry.
EntryEvaluated == Len(all_routines') = Len(all_routines) + 1

Rank(tier) == CASE tier = "none" -> 0 [] tier = "3_week" -> 1
                [] tier = "2_week" -> 2 [] tier = "critical" -> 3

BothSteps == {"is_about_to_expire", "test_rss_feed"}

\* C1: when a pass of test_rss_feed has ended, sendMail has been called at
\* most once in it, and not at all exactly when the pass classified no entry
\* new.
C1_AtMostOneMailPerPass ==
    (pc = "done" /\ "test_rss_feed" \in ran) =>
        /\ Len(mails) <= 1
        /\ (Len(mails) = 0 <=> Len(new_routines) = 0)

\* C2 as claimed: an entry is classified new exactly when its id is not in
\* the table at that moment, the loop goes on to the next entry, a new id
\* other than None is in the table afterwards, and no such id is classified
\* new a second time.
C2_NewAtMostOnce ==
    [][EntryEvaluated =>
         LET id == last'.routine_data.id
         IN  /\ last'.is_new <=> id \notin Range(db)
             /\ entries' = Tail(entries)
             /\ (last'.is_new /\ id # None) => (id \in Range(db') /\ id \notin seen)]_vars

\* C2 amended: an entry is classified new exactly when its id is not in the
\* list the cache read returned, which is the stored ids (newest first) or
\* the empty list when the read failed; the loop goes on to the next entry
\* whatever the verdict; a new id other than None is in the table afterwards
\* unless the insert failed; no id leaves the table; and an id that is in the
\* table is classified new only by an evaluation whose read failed.
C2_NewIffAbsentFromRead ==
    [][EntryEvaluated =>
         LET id == last'.routine_data.id
             errors == last'.errors
         IN  /\ last'.cached_ids = (IF "read" \in errors THEN <<>> ELSE Reverse(db))
             /\ last'.is_new <=> id \notin Range(last'.cached_ids)
             /\ entries' = Tail(entries) /\ pc' = "loop"
             /\ Range(db) \subseteq Range(db')
             /\ (last'.is_new /\ id # None /\ "write" \notin errors) => id \in Range(db')
             /\ (last'.is_new /\ id \in Range(db)) => "read" \in errors]_vars

\* C2 witness: an id that an earlier evaluation classified new and stored is
\* evaluated again, the read succeeds, and the entry is not new.
C2_SeenIdNotNewAgain ==
    /\ pc = "loop"
    /\ all_routines # <<>>
    /\ ~last.is_new
    /\ last.errors = {}
    /\ last.routine_data.id \in seen
    /\ last.routine_data.id \in Range(db)

\* C3: the entry just evaluated is classified new exactly when it was
\* published at most 7 days (168 hours) before the current Norwegian time.
C3_NewIffWithinSevenDays ==
    all_routines # <<>> =>
        (last.is_new <=>
            current_norwegian_time(now) - last.routine_data.published_iso <= 168)

\* C4: once the hours h until expiration are computed, the branch taken is
\* 3_week exactly when 420 <= h <= 588, 2_week exactly when 252 <= h < 420,
\* critical exactly when h < 252, and none otherwise.
C4_TierBands ==
    expiry.checked =>
        LET h == expiry.hours
        IN  /\ expiry.tier = "3_week" <=> (420 <= h /\ h <= 588)
            /\ expiry.tier = "2_week" <=> (252 <= h /\ h < 420)
            /\ expiry.tier = "critical" <=> h < 252
            /\ expiry.tier = "none" <=> h > 588

\* C4 witness: a check made exactly 420 hours before expiration took the
\* 3-week branch.
C4_At420ThreeWeek == expiry.checked /\ expiry.hours = 420 /\ expiry.tier = "3_week"

\* C5 as claimed: with 588 hours or more left, no branch is taken, the call
\* returns False and ChangeClientSecret is not called.
C5_SilentFrom588 ==
    (expiry.checked /\ expiry.hours >= 588) =>
        (expiry.tier = "none" /\ ~expiry.result /\ ~expiry.warned)

\* C5 amended: with more than 588 hours left, no branch is taken, the call
\* returns False and ChangeClientSecret is not called.
C5_SilentAbove588 ==
    (expiry.checked /\ expiry.hours > 588) =>
        (expiry.tier = "none" /\ ~expiry.result /\ ~expiry.warned /\ ~expiry.posted)

\* C5 witness: a check made 589 hours before expiration.
C5_At589 == expiry.checked /\ expiry.hours = 589 /\ expiry.called

\* C6: every check that takes a branch calls ChangeClientSecret and returns
\* True, whatever the check before it did for the same date.
C6_WarnsOnEveryPass ==
    (expiry.checked /\ expiry.tier # "none") => (expiry.warned /\ expiry.result)

\* C6 witness: two checks in a row for the same date took the same branch,
\* and the second one posted its warning.
C6_WarnedAgain ==
    /\ expiry.checked
    /\ expiry.tier = "2_week"
    /\ expiry.prev = "2_week"
    /\ expiry.warned
    /\ expiry.posted

\* C7: of two checks in a row that read the same expiration date, the later
\* one is never in an earlier tier of none, 3_week, 2_week, critical.
C7_TierMovesForward ==
    (expiry.checked /\ expiry.prev # "unchecked") => Rank(expiry.prev) <= Rank(expiry.tier)

\* C7 witness: a check in the critical branch follows one in the 2-week
\* branch for the same date.
C7_FromTwoWeekToCritical ==
    expiry.checked /\ expiry.prev = "2_week" /\ expiry.tier = "critical"

\* C8: when an invocation has ended, every step its entry point calls has
\* run: is_about_to_expire and test_rss_feed from RoutineNotification,
\* test_rss_feed from the root entry point.
C8_EveryStepRuns ==
    pc = "done" =>
        /\ fn = "RoutineNotification" => ran = BothSteps
        /\ fn = "root" => ran = {"test_rss_feed"}

\* C8 witness: an invocation has ended in which the date setting could not
\* be parsed and the cache insert failed, and both steps ran.
C8_BothFailedBothRan ==
    /\ pc = "done"
    /\ fn = "RoutineNotification"
    /\ ran = BothSteps
    /\ expiry.date = IsoDate
    /\ ~expiry.checked
    /\ "write" \in last.errors

\* C9: no exception leaves is_about_to_expire, test_rss_feed or main;
\* ChangeClientSecret and sendMail do not raise, and return False when no
\* mail was posted; and every invocation that has started ends.
C9_NoFailurePropagates ==
    /\ [](/\ escaped = {}
          /\ ~expiry.raised
          /\ ~expiry.mail_raised
          /\ (expiry.warned /\ ~expiry.posted) => ~expiry.delivered
          /\ \A k \in 1..Len(mails) :
                ~mails[k].raised /\ (~mails[k].posted => ~mails[k].result))
    /\ (pc # "idle" ~> pc = "idle")

\* C9 witness: an invocation has ended in which the warning mail got no
\* token or no 202, a routine mail failed, and the cache read and the cache
\* insert failed.
C9_EverythingFailed ==
    /\ pc = "done"
    /\ ran = BothSteps
    /\ expiry.warned
    /\ ~expiry.delivered
    /\ mails # <<>>
    /\ last.errors = {"read", "write"}

\* C10: a check that finds the setting unset or empty returns False without
\* raising, calls no mailer, computes no hours, and changes neither the
\* table nor anything else that outlives the invocation.
C10_AbsentSettingIsSilent ==
    [][(pc = "expiry" /\ env \in {None, <<>>}) =>
         /\ expiry'.called
         /\ ~expiry'.result /\ ~expiry'.raised /\ ~expiry'.checked
         /\ ~expiry'.warned /\ ~expiry'.posted
         /\ escaped' = {}
         /\ pc' = "feed"
         /\ db' = db /\ env' = env]_vars

\* C10 witness: the check has just run with the setting empty.
C10_CheckedEmptySetting ==
    /\ pc = "feed"
    /\ ran = {"is_about_to_expire"}
    /\ expiry.called
    /\ expiry.date = <<>>
    /\ ~expiry.result

\* The n newest rows of the table s, or all of them when there are fewer.
MostRecent(s, n) == SubSeq(s, Max({1, Len(s) - n + 1}), Len(s))

\* C11: the table routine_ids holds at most 10 ids after every evaluation of
\* an entry, and an evaluation that stores an id leaves the 10 most recently
\* added ids, the stored one among them.
C11_CacheHoldsLastTen ==
    [][EntryEvaluated =>
         /\ Len(db') <= 10
         /\ db' # db => db' = MostRecent(Append(db, last'.routine_data.id), 10)]_vars

\* The message that describes the records: the count in the subject,
\* singular for one record, and one item per record, in their order.
Digest(records) ==
    [subject |-> IF Len(records) > 1 THEN <<Len(records), "nye rutiner publisert">>
                 ELSE <<1, "ny rutine publisert">>,
     body    |-> [k \in 1..Len(records) |->
                     <<records[k].title, records[k].formatted_date, records[k].search_url>>]]

\* C13: when a pass of test_rss_feed has ended, every message a sendMail
\* call of the pass produced has the subject and the body of the records the
\* pass classified new: their count in the subject and one item (title,
\* formatted date, search link) per record, in feed order; and sendMail
\* makes a message of what each call handed it, once it has its token.
C13_MessageListsNewRecords ==
    (pc = "done" /\ "test_rss_feed" \in ran) =>
        /\ \A k \in 1..Len(mails) :
              mails[k].subject # None =>
                  /\ mails[k].subject = Digest(new_routines).subject
                  /\ mails[k].body = Digest(new_routines).body
        /\ \A k \in 1..Len(mails) :
              LET sent == sendMail(mails[k].routines, TRUE, TRUE)
              IN  sent.posted /\ sent.subject # None /\ sent.body # None

\* The string ends in p= followed by one or more digits.
EndsInPostId(id) ==
    \E k \in 1..Len(id) :
        /\ k + 2 <= Len(id)
        /\ id[k] = "p" /\ id[k + 1] = "="
        /\ \A j \in (k + 2)..Len(id) : id[j] \in Digits

\* C14: an entry gets the id None exactly when its id string does not end in
\* p=<digits>; such an entry is evaluated like any other, is classified new
\* whatever the table holds and whether or not the read succeeds, is mailed,
\* and leaves the table as it was; the table never holds None.
C14_NoneIdAlwaysNew ==
    [][EntryEvaluated =>
         LET routine_data == last'.routine_data
         IN  /\ routine_data.id = None <=> ~EndsInPostId(Head(entries).id)
             /\ None \notin Range(db')
             /\ routine_data.id = None =>
                    /\ last'.is_new
                    /\ new_routines' = Append(new_routines, routine_data)
                    /\ Len(mails') = Len(mails) + 1
                    /\ db' = db
                    /\ pc' = "loop"]_vars

\* C14 witness: with ids in the table, a pass has classified two entries
\* without an id new, one after the other.
C14_NoneIdNewTwice ==
    /\ pc = "loop"
    /\ db # <<>>
    /\ Len(new_routines) = 2
    /\ new_routines[1].id = None
    /\ new_routines[2].id = None
    /\ last.is_new

\* C15 as claimed: every entry classified new with an id other than None
\* has its id in the table after the evaluation, whatever sendMail returned,
\* and an id that was classified new before is not classified new again.
C15_StoredAndNeverRetried ==
    [][EntryEvaluated =>
         LET id == last'.routine_data.id
         IN  /\ (last'.is_new /\ id # None) => id \in Range(db')
             /\ (id # None /\ id \in seen) => ~last'.is_new]_vars

\* C15 amended: for every entry classified new with an id other than None,
\* sendMail is called, no exception leaves the call, the loop goes on, and
\* whatever the call returned the id is in the table afterwards unless the
\* insert failed, in which case the table is unchanged; an entry whose id
\* is in the table is not new and not mailed when the read succeeds, and is
\* new and mailed again when the read fails.
C15_StoredWhateverTheMail ==
    [][EntryEvaluated =>
         LET id == last'.routine_data.id
             errors == last'.errors
         IN  /\ (last'.is_new /\ id # None) =>
                    /\ Len(mails') = Len(mails) + 1
                    /\ ~mails'[Len(mails')].raised
                    /\ pc' = "loop"
                    /\ "write" \notin errors => id \in Range(db')
                    /\ "write" \in errors => db' = db
             /\ (id \in Range(db) /\ "read" \notin errors) =>
                    (~last'.is_new /\ mails' = mails /\ db' = db)
             /\ (id \in Range(db) /\ "read" \in errors) =>
                    (last'.is_new /\ Len(mails') = Len(mails) + 1)]_vars

\* C15 witness: a pass evaluates as its first entry a routine that an
\* earlier pass mailed without success and stored; it is not new and the
\* pass has mailed nothing.
C15_FailedMailNotRetried ==
    /\ pc = "loop"
    /\ Len(all_routines) = 1
    /\ ~last.is_new
    /\ last.errors = {}
    /\ last.routine_data.id \in seen
    /\ last.routine_data.id \in Range(db)
    /\ mails = <<>>

====
